---- MODULE Spec2Model ----
(***************************************************************************)
(* The Docker driver of cnab-go (driver/docker/docker.go): one Driver, the *)
(* container engine behind its runtime client, and the primary flow of     *)
(* Driver.exec together with the two goroutines it starts.                 *)
(*                                                                         *)
(* Strings that the code takes apart are modelled by their parts: a path   *)
(* is the sequence of its "/"-separated components ("/cnab/app" is         *)
(* <<"", "cnab", "app">>), an error is the sequence of the fragments its   *)
(* message is formatted from, the nil error being the empty sequence.      *)
(***************************************************************************)
EXTENDS Integers, Sequences, FiniteSets, TLC

\* ------------------------------------------------------------- bounds
\* Number of Run calls made on the Driver.
MaxRuns == 2
\* Number of ConfigurationOptions that can be registered.
MaxOptions == 2
MaxEofCopies == 2

\* Container ids: the engine names the container of the n-th Run n.
RunIds == 1..MaxRuns

\* ------------------------------------------------------------- values
NilErr == <<>>
\* Driver.dockerCli: nil, the client handed to SetDockerCli, or the one
\* initializeDockerCli constructed.
NoCli == "nil"
InjectedCli == "registered"
BuiltCli == "constructed"
NoContainer == 0

ErrNotFound == <<"No such image">>
ErrEngine == <<"engine failure">>
ErrRef == <<"invalid reference format">>
ErrStream == <<"pull stream failure">>
ErrCli == <<"cannot initialize docker cli">>
ErrOption == <<"configuration option failed">>
ErrTar == <<"unexpected EOF">>
ErrWait == <<"wait failed">>

EmptyOutputs == [p \in {} |-> ""]
EmptyResult == [Outputs |-> EmptyOutputs]

\* Image references an Operation can carry: one that normalizes, one that
\* reference.ParseNormalizedNamed rejects.
Images == {"example/install:v1", "Example/Install"}

\* Keys of Operation.Files: an absolute and a non-absolute destination.
AbsKey == <<"", "cnab", "app", "run">>
RelKey == <<"tmp", "input">>
FileKeys == {AbsKey, RelKey}
FileMaps == UNION {[ks -> {"#!/bin/sh"}] : ks \in SUBSET FileKeys}

\* Driver settings maps handed to SetConfig (an absent key reads as "").
ConfigKeys == {"PULL_ALWAYS"}
Settings == [ConfigKeys -> {"", "1"}]

\* Exit statuses and engine messages the wait channel can deliver.
StatusCodes == {0, 137}
WaitResponses ==
  [StatusCode : StatusCodes, HasError : {FALSE}, Message : {""}]
    \cup [StatusCode : StatusCodes, HasError : {TRUE}, Message : {"OOMKilled"}]

\* ------------------------------------------------------------- paths
RECURSIVE CleanFrom(_, _)
\* path.Clean on the components after the root: "" and "." vanish, ".."
\* removes the component before it (and vanishes at the root).
CleanFrom(comps, acc) ==
  IF comps = <<>> THEN acc
  ELSE LET c == Head(comps) IN
       IF c = "" \/ c = "." THEN CleanFrom(Tail(comps), acc)
       ELSE IF c = ".."
            THEN CleanFrom(Tail(comps),
                           IF acc = <<>> THEN acc ELSE SubSeq(acc, 1, Len(acc) - 1))
            ELSE CleanFrom(Tail(comps), Append(acc, c))

\* unix_path.IsAbs: the string starts with "/".
IsAbs(path) == Len(path) >= 2 /\ path[1] = ""

\* filepath.Join(root, name) for a rooted first element: join with "/",
\* then Clean.
Join(root, name) == <<"">> \o CleanFrom(Tail(root) \o name, <<>>)

AppRoot == <<"", "cnab", "app">>
OutputsDir == <<"", "cnab", "app", "outputs">>

\* --------------------------------------------------- container files
\* What can lie under /cnab/app/outputs when the container has stopped, in
\* the order an archive of the directory lists it.
WalkOrder ==
  << [Path |-> OutputsDir, IsDir |-> TRUE],
     [Path |-> OutputsDir \o <<"install.log">>, IsDir |-> FALSE],
     [Path |-> OutputsDir \o <<"sub">>, IsDir |-> TRUE],
     [Path |-> OutputsDir \o <<"sub", "state">>, IsDir |-> FALSE] >>

Contents == {"", "ok"}
FileContents == {"ok"}

\* A file system: each present node with its contents ("" for a directory);
\* the outputs directory itself is present, and every other node is present
\* only together with its parent directory.
HasNode(f, path) == \E n \in DOMAIN f : WalkOrder[n].Path = path
FileSystems ==
  { f \in UNION {[ns -> Contents] : ns \in SUBSET (DOMAIN WalkOrder)} :
      /\ HasNode(f, OutputsDir)
      /\ \A n \in DOMAIN f : IF WalkOrder[n].IsDir THEN f[n] = "" ELSE f[n] \in FileContents
      /\ \A n \in DOMAIN f :
            WalkOrder[n].Path # OutputsDir =>
              HasNode(f, SubSeq(WalkOrder[n].Path, 1, Len(WalkOrder[n].Path) - 1)) }

\* The non-directory files of a file system, by full in-container path.
FilesOf(f) ==
  [p \in {WalkOrder[n].Path : n \in {m \in DOMAIN f : ~WalkOrder[m].IsDir}} |->
     f[CHOOSE n \in DOMAIN f : WalkOrder[n].Path = p]]

\* ------------------------------------------------ archive out of the engine
\* The name an entry carries in the archive CopyFromContainer returns: the
\* prefix above the outputs directory is stripped, a directory ends in "/".
EntryName(node) ==
  LET rel == SubSeq(node.Path, Len(AppRoot) + 1, Len(node.Path))
  IN  IF node.IsDir THEN rel \o <<"">> ELSE rel

Present(f) ==
  LET InFs(n) == n \in DOMAIN f
  IN  SelectSeq([n \in DOMAIN WalkOrder |-> n], InFs)

\* The archive of a file system, entry by entry.
ArchiveOf(f) ==
  [i \in 1..Len(Present(f)) |->
     [Name |-> EntryName(WalkOrder[Present(f)[i]]),
      IsDir |-> WalkOrder[Present(f)[i]].IsDir,
      Contents |-> f[Present(f)[i]],
      ReadErr |-> FALSE]]

\* The streams a tar.Reader can see for a file system: the whole archive up
\* to its end, the archive cut off before an entry's header, or cut off
\* inside the contents of a file entry.
Streams(f) ==
  LET a == ArchiveOf(f) IN
    {[entries |-> a, end |-> "EOF"]}
      \cup {[entries |-> SubSeq(a, 1, k), end |-> "err"] : k \in 0..Len(a)}
      \cup {[entries |-> [i \in 1..k |-> IF i = k THEN [a[i] EXCEPT !.ReadErr = TRUE]
                                                  ELSE a[i]],
             end |-> "err"] : k \in {j \in 1..Len(a) : ~a[j].IsDir}}

\* What CopyFromContainer can answer: an error, or a stream.
CopyAnswers(f) ==
  {[err |-> ErrEngine, stream |-> [entries |-> <<>>, end |-> "err"]]}
    \cup {[err |-> NilErr, stream |-> s] : s \in Streams(f)}

\* ------------------------------------------------------- fetchOutputs
Store(outputs, path, contents) ==
  [p \in DOMAIN outputs \cup {path} |-> IF p = path THEN contents ELSE outputs[p]]

RECURSIVE ReadEntriesKeepDirs(_, _, _)
ReadEntriesKeepDirs(entries, end, outputs) ==
  IF entries = <<>>
  THEN [Outputs |-> outputs, Err |-> IF end = "EOF" THEN NilErr ELSE ErrTar]
  ELSE LET header == Head(entries)
           pathInContainer == Join(AppRoot, header.Name)
       IN  IF header.ReadErr
           THEN [Outputs |-> outputs,
                 Err |-> <<"error while reading ">> \o pathInContainer
                           \o <<" from outputs tar: ">> \o ErrTar]
           ELSE ReadEntriesKeepDirs(Tail(entries), end,
                                    Store(outputs, pathInContainer, header.Contents))

RECURSIVE ReadEntriesDropPartial(_, _, _)
ReadEntriesDropPartial(entries, end, outputs) ==
  IF entries = <<>>
  THEN IF end = "EOF" THEN [Outputs |-> outputs, Err |-> NilErr]
       ELSE [Outputs |-> EmptyOutputs, Err |-> ErrTar]
  ELSE LET header == Head(entries)
           pathInContainer == Join(AppRoot, header.Name)
       IN  IF header.IsDir
           THEN ReadEntriesDropPartial(Tail(entries), end, outputs)
           ELSE IF header.ReadErr
                THEN [Outputs |-> EmptyOutputs,
                      Err |-> <<"error while reading ">> \o pathInContainer
                                \o <<" from outputs tar: ">> \o ErrTar]
                ELSE ReadEntriesDropPartial(Tail(entries), end,
                                            Store(outputs, pathInContainer, header.Contents))

RECURSIVE ReadEntries(_, _, _)
\* The loop of fetchOutputs over tarReader.Next(): `entries` are the headers
\* Next still delivers, `end` what it answers after them.
ReadEntries(entries, end, outputs) ==
  IF entries = <<>>
  THEN [Outputs |-> outputs, Err |-> IF end = "EOF" THEN NilErr ELSE ErrTar]
  ELSE LET header == Head(entries)
           pathInContainer == Join(AppRoot, header.Name)
       IN  IF header.IsDir
           THEN ReadEntries(Tail(entries), end, outputs)
           ELSE IF header.ReadErr
                THEN [Outputs |-> outputs,
                      Err |-> <<"error while reading ">> \o pathInContainer
                                \o <<" from outputs tar: ">> \o ErrTar]
                ELSE ReadEntries(Tail(entries), end,
                                 Store(outputs, pathInContainer, header.Contents))

fetchOutputs(answer) ==
  IF answer.err # NilErr
  THEN [Outputs |-> EmptyOutputs,
        Err |-> <<"error copying outputs from container: ">> \o answer.err]
  ELSE ReadEntries(answer.stream.entries, answer.stream.end, EmptyOutputs)

\* ---------------------------------------------------------- pullImage
\* How a pull can go: the reference does not parse (no engine call), the
\* ImagePull call fails, the progress stream fails after the call, or all
\* is well.
PullOutcomes(image) ==
  IF image = "example/install:v1" THEN {"callFails", "streamFails", "ok"} ELSE {"badRef"}

PullCalls(outcome) ==
  IF outcome = "badRef" THEN <<>>
  ELSE <<[call |-> "ImagePull", ok |-> outcome # "callFails"]>>

PullErr(outcome) ==
  CASE outcome = "badRef" -> ErrRef
    [] outcome = "callFails" -> ErrEngine
    [] outcome = "streamFails" -> ErrStream
    [] OTHER -> NilErr

\* ------------------------------------------------------------- state
VARIABLES
  config,                      \* Driver.config
  Simulate,                    \* Driver.Simulate
  dockerCli,                   \* Driver.dockerCli: NoCli, or a client handle
  dockerConfigurationOptions,  \* Driver.dockerConfigurationOptions
  clients,                     \* command.NewDockerCli calls of this Run
  runs,                        \* Run calls made so far; the current one's number
  pc,                          \* where the primary flow of exec stands
  op,                          \* the Operation of the current Run
  applied,                     \* the options invoked in this Run, in order
  resp,                        \* resp.ID of the created container, or NoContainer
  deferred,                    \* the deferred ContainerRemove is registered
  err,                         \* the variable err of exec
  calls,                       \* the engine calls of this Run, in order
  outcomes,                    \* what pullImage and ContainerCreate returned in this Run
  race,                        \* what the select received
  fs,                          \* the outputs directory of the container
  copied,                      \* what CopyFromContainer answered in this Run
  fetched,                     \* what fetchOutputs returned in this Run
  result,                      \* what Run returned: the result and the error
  created,                     \* every container the engine ever created
  removes,                     \* ContainerRemove calls, per container
  logTask,                     \* the log-forwarding goroutine started last
  attachStream,                \* the stream that goroutine copies from
  eofCopies,                   \* its StdCopy calls that returned at end of stream
  tarTask,                     \* the archive-producer goroutine started last
  tarLeft,                     \* entries that producer has still to write
  described                    \* what Config() returned, if it was the last call

vars == <<config, Simulate, dockerCli, dockerConfigurationOptions, runs,
          pc, op, clients, applied, resp, deferred, err, calls, outcomes, race,
          fs, copied, fetched, result, created, removes, logTask,
          attachStream, eofCopies, tarTask, tarLeft, described>>

driverVars == <<config, Simulate, dockerCli, dockerConfigurationOptions>>
taskVars == <<logTask, tarTask, tarLeft>>
engineVars == <<created, removes>>

NoOp == [Image |-> "example/install:v1", Files |-> [k \in {} |-> ""]]
NoRace == [ch |-> "none", err |-> NilErr, status |-> 0, hasError |-> FALSE, message |-> ""]
NoFs == [n \in {} |-> ""]
NoReturn == [Outputs |-> EmptyOutputs, Err |-> NilErr]
NotDescribed == [k \in {} |-> ""]
NoAnswer == [err |-> NilErr, stream |-> [entries |-> <<>>, end |-> "none"]]

Init ==
  /\ config = [k \in ConfigKeys |-> ""]
  /\ Simulate \in BOOLEAN
  /\ dockerCli = NoCli
  /\ dockerConfigurationOptions = <<>>
  /\ clients = 0
  /\ runs = 0
  /\ pc = "idle"
  /\ op = NoOp
  /\ applied = <<>>
  /\ resp = NoContainer
  /\ deferred = FALSE
  /\ err = NilErr
  /\ calls = <<>>
  /\ outcomes = <<>>
  /\ race = NoRace
  /\ fs = NoFs
  /\ copied = NoAnswer
  /\ fetched = NoReturn
  /\ result = NoReturn
  /\ created = {}
  /\ removes = [r \in RunIds |-> 0]
  /\ logTask = "none"
  /\ tarTask = "none"
  /\ tarLeft = 0
  /\ attachStream = "none"
  /\ eofCopies = 0
  /\ described = NotDescribed

\* ------------------------------------------------------ Driver facade
\* The map literal Config() returns.
ConfigOptions ==
  [k \in {"VERBOSE", "PULL_ALWAYS", "DOCKER_DRIVER_QUIET", "OUTPUTS_MOUNT_PATH"} |->
     CASE k = "VERBOSE" -> "Increase verbosity. true, false are supported values"
       [] k = "PULL_ALWAYS" -> "Always pull image, even if locally available (0|1)"
       [] k = "DOCKER_DRIVER_QUIET" ->
            "Make the Docker driver quiet (only print container stdout/stderr)"
       [] OTHER ->
            "Absolute path to where Docker driver can create temporary directories to bundle outputs. Defaults to temp dir."]

ConfigFromSettings ==
  /\ pc = "idle"
  /\ described' = config
  /\ UNCHANGED <<driverVars, clients, runs, pc, op, applied, resp, deferred, err, calls,
                 outcomes, race, fs, copied, fetched, result, engineVars, taskVars,
                 attachStream, eofCopies>>

\* Config(): the caller gets the map; the Driver is not touched. described
\* holds the map until the next call on the Driver.
Config ==
  /\ pc = "idle"
  /\ described' = ConfigOptions
  /\ UNCHANGED <<driverVars, clients, runs, pc, op, applied, resp, deferred, err, calls,
                 outcomes, race, fs, copied, fetched, result, engineVars, taskVars,
                 attachStream, eofCopies>>

SetConfig ==
  /\ pc = "idle"
  /\ \E settings \in Settings : config' = settings
  /\ UNCHANGED <<Simulate, dockerCli, dockerConfigurationOptions, clients, runs,
                 pc, op, applied, resp, deferred, err, calls, race, fs, copied, fetched, result,
                 created, removes, logTask, tarTask, tarLeft>>
  /\ described' = NotDescribed
  /\ UNCHANGED <<outcomes, attachStream, eofCopies>>

SetDockerCli ==
  /\ pc = "idle"
  /\ dockerCli' = InjectedCli
  /\ UNCHANGED <<config, Simulate, dockerConfigurationOptions, clients, runs,
                 pc, op, applied, resp, deferred, err, calls, race, fs, copied, fetched, result,
                 created, removes, logTask, tarTask, tarLeft>>
  /\ described' = NotDescribed
  /\ UNCHANGED <<outcomes, attachStream, eofCopies>>

\* A ConfigurationOption is known by the place it was registered at and by
\* whether it returns an error.
AddConfigurationOptions ==
  /\ pc = "idle"
  /\ \E n \in 1..(MaxOptions - Len(dockerConfigurationOptions)) :
       \E fails \in [1..n -> BOOLEAN] :
         dockerConfigurationOptions' =
           dockerConfigurationOptions
             \o [i \in 1..n |-> [id |-> Len(dockerConfigurationOptions) + i,
                                 fails |-> fails[i]]]
  /\ UNCHANGED <<config, Simulate, dockerCli, clients, runs,
                 pc, op, applied, resp, deferred, err, calls, race, fs, copied, fetched, result,
                 created, removes, logTask, tarTask, tarLeft>>
  /\ described' = NotDescribed
  /\ UNCHANGED <<outcomes, attachStream, eofCopies>>

\* ------------------------------------------------------- Run and exec
\* A return statement of exec: the values are fixed here; the deferred
\* ContainerRemove, when registered, runs before Run hands them out.
ReturnSkippingDefer(res, e) ==
  /\ result' = [Outputs |-> res.Outputs, Err |-> e]
  /\ pc' = "returned"

Return(res, e) ==
  /\ result' = [Outputs |-> res.Outputs, Err |-> e]
  /\ pc' = IF deferred THEN "remove" ELSE "returned"

Record(call, ok) == calls' = Append(calls, [call |-> call, ok |-> ok])

Run ==
  /\ pc = "idle"
  /\ runs < MaxRuns
  /\ runs' = runs + 1
  /\ \E image \in Images, files \in FileMaps : op' = [Image |-> image, Files |-> files]
  /\ pc' = "init"
  /\ UNCHANGED <<driverVars, clients, applied, resp, deferred, err, calls, race, fs, copied, fetched, result,
                 engineVars, taskVars>>
  /\ described' = NotDescribed
  /\ UNCHANGED <<outcomes, attachStream, eofCopies>>

initializeDockerCliAlwaysBuilds ==
  /\ pc = "init"
  /\ clients' = clients + 1
  /\ \E outcome \in {"newFails", "initializeFails", "ok"} :
       IF outcome = "ok"
       THEN /\ dockerCli' = BuiltCli
            /\ pc' = "simulate"
            /\ UNCHANGED <<err, result>>
       ELSE /\ err' = ErrCli
            /\ Return(EmptyResult, ErrCli)
            /\ UNCHANGED dockerCli
  /\ UNCHANGED <<config, Simulate, dockerConfigurationOptions, runs, op, applied,
                 resp, deferred, calls, race, fs, copied, fetched, engineVars, taskVars>>
  /\ UNCHANGED <<outcomes, attachStream, eofCopies, described>>

\* initializeDockerCli, and the return of exec when it fails.
initializeDockerCli ==
  /\ pc = "init"
  /\ \/ /\ dockerCli # NoCli
        /\ pc' = "simulate"
        /\ UNCHANGED <<dockerCli, clients, err, result>>
     \/ /\ dockerCli = NoCli
        /\ clients' = clients + 1
        /\ \E outcome \in {"newFails", "initializeFails", "ok"} :
             IF outcome = "ok"
             THEN /\ dockerCli' = BuiltCli
                  /\ pc' = "simulate"
                  /\ UNCHANGED <<err, result>>
             ELSE /\ err' = ErrCli
                  /\ Return(EmptyResult, ErrCli)
                  /\ UNCHANGED dockerCli
  /\ UNCHANGED <<config, Simulate, dockerConfigurationOptions, runs, op, applied,
                 resp, deferred, calls, race, fs, copied, fetched, engineVars, taskVars>>
  /\ UNCHANGED <<outcomes, attachStream, eofCopies, described>>

SimulateCheckSkipped ==
  /\ pc = "simulate"
  /\ pc' = IF config["PULL_ALWAYS"] = "1" THEN "pullAlways" ELSE "options"
  /\ UNCHANGED result
  /\ UNCHANGED <<driverVars, clients, runs, op, applied, resp, deferred, err, calls, race, fs, copied, fetched,
                 engineVars, taskVars>>
  /\ UNCHANGED <<outcomes, attachStream, eofCopies, described>>

SimulateCheck ==
  /\ pc = "simulate"
  /\ IF Simulate
     THEN Return(EmptyResult, NilErr)
     ELSE /\ pc' = IF config["PULL_ALWAYS"] = "1" THEN "pullAlways" ELSE "options"
          /\ UNCHANGED result
  /\ UNCHANGED <<driverVars, clients, runs, op, applied, resp, deferred, err, calls, race, fs, copied, fetched,
                 engineVars, taskVars>>
  /\ UNCHANGED <<outcomes, attachStream, eofCopies, described>>

\* pullImage or ContainerCreate returns e to exec.
Returned(step, e) ==
  outcomes' = Append(outcomes, [step |-> step, err |-> e])

EagerPullIgnoringError ==
  /\ pc = "pullAlways"
  /\ \E outcome \in PullOutcomes(op.Image) :
       /\ calls' = calls \o PullCalls(outcome)
       /\ Returned("pullImage", PullErr(outcome))
       /\ pc' = "options"
       /\ UNCHANGED result
  /\ UNCHANGED <<driverVars, clients, runs, op, applied, resp, deferred, err, race, fs, copied, fetched,
                 engineVars, taskVars>>
  /\ UNCHANGED <<attachStream, eofCopies, described>>

EagerPull ==
  /\ pc = "pullAlways"
  /\ \E outcome \in PullOutcomes(op.Image) :
       /\ calls' = calls \o PullCalls(outcome)
       /\ Returned("pullImage", PullErr(outcome))
       /\ IF PullErr(outcome) # NilErr
          THEN Return(EmptyResult, PullErr(outcome))
          ELSE pc' = "options" /\ UNCHANGED result
  /\ UNCHANGED <<driverVars, clients, runs, op, applied, resp, deferred, err, race, fs, copied, fetched,
                 engineVars, taskVars>>
  /\ UNCHANGED <<attachStream, eofCopies, described>>

InvokedAll(opts) == opts

RECURSIVE Invoked(_)
\* The options the loop over dockerConfigurationOptions invokes: up to and
\* including the first that returns an error.
Invoked(opts) ==
  IF opts = <<>> THEN <<>>
  ELSE IF Head(opts).fails THEN <<Head(opts)>>
       ELSE <<Head(opts)>> \o Invoked(Tail(opts))

ApplyOptions ==
  /\ pc = "options"
  /\ applied' = Invoked(dockerConfigurationOptions)
  /\ IF \E i \in DOMAIN applied' : applied'[i].fails
     THEN Return(EmptyResult, ErrOption)
     ELSE pc' = "create" /\ UNCHANGED result
  /\ UNCHANGED <<driverVars, clients, runs, op, resp, deferred, err, calls, race, fs, copied, fetched,
                 engineVars, taskVars>>
  /\ UNCHANGED <<outcomes, attachStream, eofCopies, described>>

\* The engine creates a container for the current Run.
Created(id) ==
  /\ resp' = id
  /\ created' = created \cup {id}

\* The first ContainerCreate and the switch on its error; on success the
\* removal is deferred.
ContainerCreate ==
  /\ pc = "create"
  /\ \E e \in {NilErr, ErrNotFound, ErrEngine} :
       /\ err' = e
       /\ Returned("ContainerCreate", e)
       /\ Record("ContainerCreate", e = NilErr)
       /\ CASE e = ErrNotFound ->
                 /\ pc' = "fallbackPull"
                 /\ UNCHANGED <<resp, created, deferred, result>>
            [] e = NilErr ->
                 /\ Created(runs)
                 /\ deferred' = TRUE
                 /\ pc' = "stage"
                 /\ UNCHANGED result
            [] OTHER ->
                 /\ Return(EmptyResult, <<"cannot create container: ">> \o e)
                 /\ UNCHANGED <<resp, created, deferred>>
  /\ UNCHANGED <<driverVars, clients, runs, op, applied, race, fs, copied, fetched, removes, taskVars>>
  /\ UNCHANGED <<attachStream, eofCopies, described>>

FallbackPullTwice ==
  /\ pc = "fallbackPull"
  /\ \E outcome \in PullOutcomes(op.Image) :
       /\ calls' = calls \o PullCalls(outcome) \o PullCalls(outcome)
       /\ Returned("pullImage", PullErr(outcome))
       /\ IF PullErr(outcome) # NilErr
          THEN Return(EmptyResult, PullErr(outcome))
          ELSE pc' = "recreate" /\ UNCHANGED result
  /\ UNCHANGED <<driverVars, clients, runs, op, applied, resp, deferred, err, race, fs, copied, fetched,
                 engineVars, taskVars>>
  /\ UNCHANGED <<attachStream, eofCopies, described>>

\* The pull after "Unable to find image locally".
FallbackPull ==
  /\ pc = "fallbackPull"
  /\ \E outcome \in PullOutcomes(op.Image) :
       /\ calls' = calls \o PullCalls(outcome)
       /\ Returned("pullImage", PullErr(outcome))
       /\ IF PullErr(outcome) # NilErr
          THEN Return(EmptyResult, PullErr(outcome))
          ELSE pc' = "recreate" /\ UNCHANGED result
  /\ UNCHANGED <<driverVars, clients, runs, op, applied, resp, deferred, err, race, fs, copied, fetched,
                 engineVars, taskVars>>
  /\ UNCHANGED <<attachStream, eofCopies, described>>

ContainerCreateRetryAgain ==
  /\ pc = "recreate"
  /\ \E e \in {NilErr, ErrNotFound, ErrEngine} :
       /\ err' = e
       /\ Returned("ContainerCreate", e)
       /\ Record("ContainerCreate", e = NilErr)
       /\ CASE e = ErrNotFound ->
                 /\ pc' = "fallbackPull"
                 /\ UNCHANGED <<resp, created, deferred, result>>
            [] e = NilErr ->
                 /\ Created(runs)
                 /\ deferred' = TRUE
                 /\ pc' = "stage"
                 /\ UNCHANGED result
            [] OTHER ->
                 /\ Return(EmptyResult, <<"cannot create container: ">> \o e)
                 /\ UNCHANGED <<resp, created, deferred>>
  /\ UNCHANGED <<driverVars, clients, runs, op, applied, race, fs, copied, fetched, removes, taskVars>>
  /\ UNCHANGED <<attachStream, eofCopies, described>>

\* The ContainerCreate after the pull.
ContainerCreateRetry ==
  /\ pc = "recreate"
  /\ \E e \in {NilErr, ErrNotFound, ErrEngine} :
       /\ err' = e
       /\ Returned("ContainerCreate", e)
       /\ Record("ContainerCreate", e = NilErr)
       /\ IF e # NilErr
          THEN /\ Return(EmptyResult, <<"cannot create container: ">> \o e)
               /\ UNCHANGED <<resp, created, deferred>>
          ELSE /\ Created(runs)
               /\ deferred' = TRUE
               /\ pc' = "stage"
               /\ UNCHANGED result
  /\ UNCHANGED <<driverVars, clients, runs, op, applied, race, fs, copied, fetched, removes, taskVars>>
  /\ UNCHANGED <<attachStream, eofCopies, described>>

\* generateTar: every key is checked before the producer goroutine starts.
generateTar ==
  /\ pc = "stage"
  /\ IF \E path \in DOMAIN op.Files : ~IsAbs(path)
     THEN /\ err' = <<"destination path should be an absolute unix path">>
          /\ Return(EmptyResult, <<"error staging files: ">> \o err')
          /\ UNCHANGED taskVars
     ELSE /\ err' = NilErr
          /\ tarTask' = "writing"
          /\ tarLeft' = Cardinality(DOMAIN op.Files)
          /\ pc' = "copyTo"
          /\ UNCHANGED <<result, logTask>>
  /\ UNCHANGED <<driverVars, clients, runs, op, applied, resp, deferred, calls, race, fs, copied, fetched,
                 engineVars>>
  /\ UNCHANGED <<outcomes, attachStream, eofCopies, described>>

\* The producer writes one entry into the pipe; a write into an io.Pipe
\* completes only while the engine call is reading the other end, or fails
\* at once when the other end was closed (the producer ignores the error
\* and goes on).
TarWrite ==
  /\ \/ tarTask = "writing" /\ pc = "copyTo"
     \/ tarTask = "draining"
  /\ tarLeft > 0
  /\ tarLeft' = tarLeft - 1
  /\ UNCHANGED <<driverVars, clients, runs, pc, op, applied, resp, deferred, err, calls, race,
                 fs, copied, fetched, result, engineVars, logTask, tarTask>>
  /\ UNCHANGED <<outcomes, attachStream, eofCopies, described>>

\* The producer has written every entry and closes the pipe.
TarClose ==
  /\ tarTask \in {"writing", "draining"}
  /\ tarLeft = 0
  /\ tarTask' = "done"
  /\ UNCHANGED <<driverVars, clients, runs, pc, op, applied, resp, deferred, err, calls, race,
                 fs, copied, fetched, result, engineVars, logTask, tarLeft>>
  /\ UNCHANGED <<outcomes, attachStream, eofCopies, described>>

CopyToContainerIgnoringError ==
  /\ pc = "copyTo"
  /\ \E e \in {NilErr, ErrEngine} :
       /\ e = NilErr => tarTask = "done"
       /\ err' = e
       /\ Record("CopyToContainer", e = NilErr)
       /\ pc' = "attach"
       /\ UNCHANGED result
  /\ UNCHANGED <<driverVars, clients, runs, op, applied, resp, deferred, race, fs, copied, fetched,
                 engineVars, taskVars>>
  /\ UNCHANGED <<outcomes, attachStream, eofCopies, described>>

\* CopyToContainer returns: with success once the archive was read to its
\* end, with an error at any time. exec holds the pipe as an io.Reader and
\* never closes it; a client that fails may or may not have closed the
\* reader it was handed.
CopyToContainer ==
  /\ pc = "copyTo"
  /\ \E e \in {NilErr, ErrEngine} :
       /\ e = NilErr => tarTask = "done"
       /\ err' = e
       /\ Record("CopyToContainer", e = NilErr)
       /\ IF e # NilErr
          THEN /\ Return(EmptyResult, <<"error copying to / in container: ">> \o e)
               /\ \E closes \in BOOLEAN :
                    tarTask' = IF closes /\ tarTask = "writing" THEN "draining"
                               ELSE tarTask
          ELSE pc' = "attach" /\ UNCHANGED <<result, tarTask>>
  /\ UNCHANGED <<driverVars, clients, runs, op, applied, resp, deferred, race, fs, copied, fetched,
                 engineVars, logTask, tarLeft>>
  /\ UNCHANGED <<outcomes, attachStream, eofCopies, described>>

ContainerAttachIgnoringError ==
  /\ pc = "attach"
  /\ \E e \in {NilErr, ErrEngine} :
       /\ err' = e
       /\ Record("ContainerAttach", e = NilErr)
       /\ pc' = "stream"
       /\ UNCHANGED result
  /\ UNCHANGED <<driverVars, clients, runs, op, applied, resp, deferred, race, fs, copied, fetched,
                 engineVars, taskVars>>
  /\ UNCHANGED <<outcomes, attachStream, eofCopies, described>>

ContainerAttach ==
  /\ pc = "attach"
  /\ \E e \in {NilErr, ErrEngine} :
       /\ err' = e
       /\ Record("ContainerAttach", e = NilErr)
       /\ IF e # NilErr
          THEN Return(EmptyResult, <<"unable to retrieve logs: ">> \o e)
          ELSE pc' = "stream" /\ UNCHANGED result
  /\ UNCHANGED <<driverVars, clients, runs, op, applied, resp, deferred, race, fs, copied, fetched,
                 engineVars, taskVars>>
  /\ UNCHANGED <<outcomes, attachStream, eofCopies, described>>

\* go func() { defer attach.Close(); for { StdCopy ... } }()
StartLogForwarding ==
  /\ pc = "stream"
  /\ logTask' = "running"
  /\ attachStream' = "open"
  /\ eofCopies' = 0
  /\ pc' = "wait"
  /\ UNCHANGED <<driverVars, clients, runs, op, applied, resp, deferred, err, calls, race, fs, copied, fetched,
                 result, engineVars, tarTask, tarLeft>>
  /\ UNCHANGED <<outcomes, described>>

\* The engine ends the attached stream: from here on every read of
\* attach.Reader answers io.EOF.
AttachStreamEnds ==
  /\ logTask = "running"
  /\ attachStream = "open"
  /\ attachStream' = "eof"
  /\ UNCHANGED <<driverVars, clients, runs, pc, op, applied, resp, deferred, err, calls, race,
                 fs, copied, fetched, result, engineVars, logTask, tarTask, tarLeft>>
  /\ UNCHANGED <<outcomes, eofCopies, described>>

\* The goroutine: a StdCopy that reads up to io.EOF returns a nil error, and
\* the loop calls StdCopy again.
StdCopyAtEndOfStream ==
  /\ logTask = "running"
  /\ attachStream = "eof"
  /\ eofCopies < MaxEofCopies
  /\ eofCopies' = eofCopies + 1
  /\ UNCHANGED <<driverVars, clients, runs, pc, op, applied, resp, deferred, err, calls, race,
                 fs, copied, fetched, result, engineVars, logTask, tarTask, tarLeft>>
  /\ UNCHANGED <<outcomes, attachStream, described>>

\* The goroutine: a StdCopy that returns an error (a failed read of the open
\* stream, or a failed write of what was read) ends the loop, and the
\* deferred attach.Close() runs. A StdCopy that finds nothing but io.EOF
\* has nothing to write and reads no other error.
LogForwardingEnds ==
  /\ logTask = "running"
  /\ attachStream = "open" \/ eofCopies = 0
  /\ logTask' = "closed"
  /\ attachStream' = "closed"
  /\ UNCHANGED <<driverVars, clients, runs, pc, op, applied, resp, deferred, err, calls, race,
                 fs, copied, fetched, result, engineVars, tarTask, tarLeft>>
  /\ UNCHANGED <<outcomes, eofCopies, described>>

\* ContainerWait hands out the two channels.
ContainerWait ==
  /\ pc = "wait"
  /\ Record("ContainerWait", TRUE)
  /\ pc' = "start"
  /\ UNCHANGED <<driverVars, clients, runs, op, applied, resp, deferred, err, race, fs, copied, fetched,
                 result, engineVars, taskVars>>
  /\ UNCHANGED <<outcomes, attachStream, eofCopies, described>>

ContainerStart ==
  /\ pc = "start"
  /\ \E e \in {NilErr, ErrEngine} :
       /\ err' = e
       /\ Record("ContainerStart", e = NilErr)
       /\ IF e # NilErr
          THEN Return(EmptyResult, <<"cannot start container: ">> \o e)
          ELSE pc' = "select" /\ UNCHANGED result
  /\ UNCHANGED <<driverVars, clients, runs, op, applied, resp, deferred, race, fs, copied, fetched,
                 engineVars, taskVars>>
  /\ UNCHANGED <<outcomes, attachStream, eofCopies, described>>

\* The select on errc and statusc: one of the two channels delivers. The
\* container has left its outputs directory as it is by now.
AwaitExit ==
  /\ pc = "select"
  /\ \/ \E e \in {NilErr, ErrWait} :
          race' = [ch |-> "errc", err |-> e, status |-> 0, hasError |-> FALSE,
                   message |-> ""]
     \/ \E s \in WaitResponses :
          race' = [ch |-> "statusc", err |-> NilErr, status |-> s.StatusCode,
                   hasError |-> s.HasError, message |-> s.Message]
  /\ fs' \in FileSystems
  /\ pc' = "fetch"
  /\ UNCHANGED <<driverVars, clients, runs, op, applied, resp, deferred, err, calls,
                 copied, fetched, result, engineVars, taskVars>>
  /\ UNCHANGED <<outcomes, attachStream, eofCopies, described>>

OutcomeFetchErrorWins(received, opResult, e) ==
  IF opResult.Err # NilErr THEN opResult
  ELSE [Outputs |-> opResult.Outputs, Err |-> <<"error in container: ">> \o received.err]

OutcomeWithoutMessage(received, opResult, e) ==
  IF received.ch = "statusc" /\ received.status = 0 THEN opResult
  ELSE [Outputs |-> opResult.Outputs,
        Err |-> <<"container exit code: ", ToString(received.status)>>]

\* What exec returns after the select, given what was received, what
\* fetchOutputs returned (opResult) and the variable err (nil since ContainerStart).
Outcome(received, opResult, e) ==
  CASE received.ch = "errc" /\ received.err # NilErr ->
         [Outputs |-> opResult.Outputs,
          Err |-> <<"error in container: ">> \o received.err]
    [] received.ch = "statusc" /\ received.status = 0 ->
         opResult
    [] received.ch = "statusc" /\ received.status # 0 /\ received.hasError ->
         [Outputs |-> opResult.Outputs,
          Err |-> <<"container exit code: ", ToString(received.status),
                    ", message: ", received.message>>]
    [] received.ch = "statusc" /\ received.status # 0 /\ ~received.hasError ->
         [Outputs |-> opResult.Outputs,
          Err |-> <<"container exit code: ", ToString(received.status)>>]
    [] OTHER ->
         [Outputs |-> opResult.Outputs, Err |-> e]

FetchOutputsSkipped ==
  /\ pc = "fetch"
  /\ LET out == Outcome(race, NoReturn, err)
     IN  Return(out, out.Err)
  /\ UNCHANGED <<driverVars, clients, runs, op, applied, resp, deferred, err, calls, race, fs,
                 copied, fetched, engineVars, taskVars>>
  /\ UNCHANGED <<outcomes, attachStream, eofCopies, described>>

\* The one fetchOutputs call every branch after the select makes, and the
\* return that follows it.
FetchOutputs ==
  /\ pc = "fetch"
  /\ \E answer \in CopyAnswers(fs) :
       /\ Record("CopyFromContainer", answer.err = NilErr)
       /\ copied' = answer
       /\ fetched' = fetchOutputs(answer)
       /\ LET out == Outcome(race, fetched', err)
          IN  Return(out, out.Err)
  /\ UNCHANGED <<driverVars, clients, runs, op, applied, resp, deferred, err, race, fs,
                 engineVars, taskVars>>
  /\ UNCHANGED <<outcomes, attachStream, eofCopies, described>>

ContainerRemoveSurfacesError ==
  /\ pc = "remove"
  /\ \E ok \in BOOLEAN :
       /\ Record("ContainerRemove", ok)
       /\ result' = IF ok THEN result ELSE [result EXCEPT !.Err = ErrEngine]
  /\ removes' = [removes EXCEPT ![resp] = @ + 1]
  /\ pc' = "returned"
  /\ UNCHANGED <<driverVars, clients, runs, op, applied, resp, deferred, err, race, fs, copied, fetched,
                 created, taskVars>>
  /\ UNCHANGED <<outcomes, attachStream, eofCopies, described>>

\* The deferred ContainerRemove; what it returns is dropped.
ContainerRemove ==
  /\ pc = "remove"
  /\ \E ok \in BOOLEAN : Record("ContainerRemove", ok)
  /\ removes' = [removes EXCEPT ![resp] = @ + 1]
  /\ pc' = "returned"
  /\ UNCHANGED <<driverVars, clients, runs, op, applied, resp, deferred, err, race, fs, copied, fetched,
                 result, created, taskVars>>
  /\ UNCHANGED <<outcomes, attachStream, eofCopies, described>>

\* Run hands what exec returned to its caller; the frame of exec is gone.
RunReturns ==
  /\ pc = "returned"
  /\ pc' = "idle"
  /\ op' = NoOp
  /\ clients' = 0
  /\ applied' = <<>>
  /\ resp' = NoContainer
  /\ deferred' = FALSE
  /\ err' = NilErr
  /\ calls' = <<>>
  /\ race' = NoRace
  /\ fs' = NoFs
  /\ copied' = NoAnswer
  /\ fetched' = NoReturn
  /\ result' = NoReturn
  /\ UNCHANGED <<driverVars, runs, engineVars, taskVars>>
  /\ outcomes' = <<>>
  /\ UNCHANGED <<attachStream, eofCopies, described>>

Next ==
  \/ Config
  \/ SetConfig
  \/ SetDockerCli
  \/ AddConfigurationOptions
  \/ Run
  \/ initializeDockerCli
  \/ SimulateCheck
  \/ EagerPull
  \/ ApplyOptions
  \/ ContainerCreate
  \/ FallbackPull
  \/ ContainerCreateRetry
  \/ generateTar
  \/ TarWrite
  \/ TarClose
  \/ CopyToContainer
  \/ ContainerAttach
  \/ StartLogForwarding
  \/ AttachStreamEnds
  \/ StdCopyAtEndOfStream
  \/ LogForwardingEnds
  \/ ContainerWait
  \/ ContainerStart
  \/ AwaitExit
  \/ FetchOutputs
  \/ ContainerRemove
  \/ RunReturns

Spec == Init /\ [][Next]_vars

\* =========================================================== properties
Count(call) == Cardinality({i \in DOMAIN calls : calls[i].call = call})
CountOk(call, ok) ==
  Cardinality({i \in DOMAIN calls : calls[i].call = call /\ calls[i].ok = ok})
Has(e, fragment) == \E i \in DOMAIN e : e[i] = fragment

\* The file entries of a stream that were read whole, keyed by the full
\* in-container path: the path of the outputs directory's parent followed
\* by the entry's name.
Parsed(stream) ==
  LET whole == {i \in DOMAIN stream.entries :
                  /\ ~stream.entries[i].IsDir
                  /\ \A j \in 1..i : ~stream.entries[j].ReadErr}
  IN  [p \in {AppRoot \o stream.entries[i].Name : i \in whole} |->
         stream.entries[CHOOSE i \in whole : AppRoot \o stream.entries[i].Name = p].Contents]

CleanEnd(answer) ==
  /\ answer.err = NilErr
  /\ answer.stream.end = "EOF"
  /\ \A i \in DOMAIN answer.stream.entries : ~answer.stream.entries[i].ReadErr

SubMap(m, n) == DOMAIN m \subseteq DOMAIN n /\ \A p \in DOMAIN m : m[p] = n[p]

\* C1: a container that was created has exactly one ContainerRemove call
\* made for it by the time Run returns, whichever later step failed; no
\* container gets a second call, and between Runs none is left unremoved.
C1_CreatedContainerRemovedOnce ==
  /\ \A id \in RunIds : removes[id] <= 1 /\ (removes[id] = 1 => id \in created)
  /\ pc \in {"returned", "idle"} => \A id \in created : removes[id] = 1
  /\ pc = "returned" /\ resp # NoContainer =>
       Count("ContainerRemove") = 1 /\ calls[Len(calls)].call = "ContainerRemove"

\* A Run that created its container, failed at ContainerStart, and has returned.
C1_Witness ==
  /\ pc = "returned"
  /\ resp # NoContainer
  /\ CountOk("ContainerStart", FALSE) = 1
  /\ removes[resp] = 1

\* C2 (as claimed): while a Run works on an Operation whose files have a
\* non-absolute key, the engine has recorded no call at all.
C2_RelativeKeyMeansNoEngineCall ==
  (\E path \in DOMAIN op.Files : ~IsAbs(path)) => calls = <<>>

\* C3 (as claimed): exit status 0 on the wait channel means a nil error and
\* outputs that are exactly the non-directory files of the outputs directory.
C3_ExitZeroAlwaysSucceeds ==
  pc = "returned" /\ race.ch = "statusc" /\ race.status = 0 =>
    result.Err = NilErr /\ result.Outputs = FilesOf(fs)

\* C3 (amended): after exit status 0, Run returns what the output fetch
\* returns: a nil error and exactly the non-directory files of the outputs
\* directory, each under its full in-container path, when the copy and the
\* reading of the archive went through; otherwise the fetch's error and
\* the files read until then.
C3_ExitZeroReturnsFetch ==
  pc = "returned" /\ race.ch = "statusc" /\ race.status = 0 =>
    IF CleanEnd(copied)
    THEN result.Err = NilErr /\ result.Outputs = FilesOf(fs)
    ELSE /\ result.Err # NilErr
         /\ result.Outputs = (IF copied.err # NilErr THEN EmptyOutputs
                              ELSE Parsed(copied.stream))
         /\ SubMap(result.Outputs, FilesOf(fs))

\* Exit status 0, a clean fetch, and both files of the nested directory tree returned.
C3_Witness ==
  /\ pc = "returned"
  /\ race.ch = "statusc" /\ race.status = 0
  /\ CleanEnd(copied)
  /\ Cardinality(DOMAIN result.Outputs) = 2
  /\ result.Err = NilErr

\* C4: a non-zero exit status gives a non-nil error that carries the status
\* in digits, carries the engine's message exactly when the engine supplied
\* one, and comes with every file read before an output-read failure; a
\* failed fetch does not replace it.
C4_NonZeroExit ==
  pc = "returned" /\ race.ch = "statusc" /\ race.status # 0 =>
    /\ result.Err # NilErr
    /\ result.Err[1] = "container exit code: "
    /\ Has(result.Err, ToString(race.status))
    /\ Has(result.Err, ", message: ") = race.hasError
    /\ race.hasError => result.Err[Len(result.Err)] = race.message
    /\ ~race.hasError => Len(result.Err) = 2
    /\ result.Outputs = (IF copied.err # NilErr THEN EmptyOutputs
                         ELSE Parsed(copied.stream))

\* Status 137 without a message, the fetch broken off after one file was read.
C4_Witness ==
  /\ pc = "returned"
  /\ race.ch = "statusc" /\ race.status = 137 /\ ~race.hasError
  /\ fetched.Err # NilErr
  /\ Cardinality(DOMAIN result.Outputs) = 1
  /\ result.Err = <<"container exit code: ", "137">>

\* C5 (as claimed): in simulate mode Run makes no engine call and returns
\* an empty result with a nil error.
C5_SimulateAlwaysSucceeds ==
  Simulate =>
    /\ calls = <<>>
    /\ pc = "returned" => result = [Outputs |-> EmptyOutputs, Err |-> NilErr]

\* C5 (amended): in simulate mode Run makes no engine call and returns an
\* empty result; the error is nil when the Driver has a client (registered,
\* cached or just constructed), and is the construction error when it had
\* none and constructing one failed.
C5_SimulateAfterClient ==
  Simulate =>
    /\ calls = <<>>
    /\ created = {}
    /\ pc = "returned" =>
         /\ result.Outputs = EmptyOutputs
         /\ result.Err = (IF dockerCli # NoCli THEN NilErr ELSE ErrCli)

\* A simulated Run that has returned successfully.
C5_Witness ==
  /\ Simulate
  /\ pc = "returned"
  /\ dockerCli # NoCli
  /\ result.Err = NilErr

\* The Run's first create failed and a later create succeeded.
RetriedCreate ==
  /\ CountOk("ContainerCreate", FALSE) >= 1
  /\ CountOk("ContainerCreate", TRUE) >= 1

\* C6 (as claimed): not-found on the first create and success on the retry
\* mean exactly one pull, one failed create and one successful create,
\* whatever the configuration.
C6_OnePullWhateverConfig ==
  RetriedCreate =>
    /\ Count("ImagePull") = 1
    /\ CountOk("ContainerCreate", FALSE) = 1
    /\ CountOk("ContainerCreate", TRUE) = 1

\* C6 (amended): not-found on the first create and success on the retry
\* mean exactly one failed create, one pull between the two creates and one
\* successful create; that pull is the Run's only one unless PULL_ALWAYS is
\* "1", when the eager pull before the first create makes it two.
C6_OneFallbackPull ==
  RetriedCreate =>
    /\ CountOk("ContainerCreate", FALSE) = 1
    /\ CountOk("ContainerCreate", TRUE) = 1
    /\ Count("ImagePull") = (IF config["PULL_ALWAYS"] = "1" THEN 2 ELSE 1)
    /\ LET first == CHOOSE i \in DOMAIN calls : calls[i].call = "ContainerCreate" /\ ~calls[i].ok
       IN  /\ calls[first + 1] = [call |-> "ImagePull", ok |-> TRUE]
           /\ calls[first + 2] = [call |-> "ContainerCreate", ok |-> TRUE]
           /\ \A i \in 1..(first - 1) : calls[i].call = "ImagePull"

\* A retried create without the eager pull.
C6_Witness ==
  /\ RetriedCreate
  /\ config["PULL_ALWAYS"] # "1"
  /\ pc = "returned"

\* C7: ContainerStart is called only after ContainerAttach has succeeded
\* and the log-forwarding goroutine has been started.
C7_AttachBeforeStart ==
  \A i \in DOMAIN calls :
    calls[i].call = "ContainerStart" =>
      /\ \E j \in 1..(i - 1) : calls[j] = [call |-> "ContainerAttach", ok |-> TRUE]
      /\ logTask # "none"
      /\ pc \notin {"attach", "stream"}

\* The container has been started.
C7_Witness ==
  /\ pc = "select"
  /\ CountOk("ContainerStart", TRUE) = 1

\* C8: a non-nil error on the error channel leads to exactly one output
\* fetch, a non-nil error made from the wait error, and the outputs that
\* fetch collected; the fetch's own failure is not what is returned.
C8_WaitError ==
  pc = "returned" /\ race.ch = "errc" /\ race.err # NilErr =>
    /\ Count("CopyFromContainer") = 1
    /\ result.Err = <<"error in container: ">> \o race.err
    /\ result.Outputs = fetched.Outputs
    /\ result.Outputs = (IF copied.err # NilErr THEN EmptyOutputs
                         ELSE Parsed(copied.stream))

\* A wait error, then a fetch that failed after reading one file.
C8_Witness ==
  /\ pc = "returned"
  /\ race.ch = "errc" /\ race.err # NilErr
  /\ fetched.Err # NilErr
  /\ Cardinality(DOMAIN result.Outputs) = 1

\* C9: fetchOutputs returns an error and no outputs when the copy cannot
\* be initiated; otherwise it leaves directories out, returns on a read
\* error that error with exactly the files read before the failing entry,
\* and returns at a clean end of archive every file with a nil error.
C9_FetchOutputsContract ==
  Count("CopyFromContainer") = 1 =>
    IF copied.err # NilErr
    THEN fetched.Err # NilErr /\ fetched.Outputs = EmptyOutputs
    ELSE /\ fetched.Outputs = Parsed(copied.stream)
         /\ (fetched.Err = NilErr) = CleanEnd(copied)
         /\ CleanEnd(copied) => fetched.Outputs = FilesOf(fs)
         /\ \A i \in DOMAIN copied.stream.entries :
              copied.stream.entries[i].IsDir =>
                AppRoot \o copied.stream.entries[i].Name \notin DOMAIN fetched.Outputs

\* A read error inside the second file, the first file kept.
C9_Witness ==
  /\ Count("CopyFromContainer") = 1
  /\ copied.err = NilErr
  /\ \E i \in DOMAIN copied.stream.entries : copied.stream.entries[i].ReadErr
  /\ Has(fetched.Err, " from outputs tar: ")
  /\ Cardinality(DOMAIN fetched.Outputs) = 1

\* C10: what Run returns is fixed before the deferred ContainerRemove is
\* called and is the same whether that call succeeds or fails.
C10_RemoveNeverChangesReturn ==
  [][pc = "remove" => result' = result]_vars

\* A Run that returned success although the removal of its container failed.
C10_Witness ==
  /\ pc = "returned"
  /\ calls # <<>>
  /\ calls[Len(calls)] = [call |-> "ContainerRemove", ok |-> FALSE]
  /\ result.Err = NilErr

\* ------------------------------------------------------------------
\* What ended the current Run before exec reached ContainerCreate.
AcquisitionFailed == clients > 0 /\ dockerCli = NoCli
EagerPullFailed ==
  /\ outcomes # <<>>
  /\ outcomes[1].step = "pullImage"
  /\ outcomes[1].err # NilErr
OptionFailed == \E i \in DOMAIN applied : applied[i].fails

\* C11: when the client cannot be acquired, the eager pull fails or a
\* registered option returns an error, Run returns that error with an empty
\* result, and the Run makes no ContainerCreate and no ContainerRemove call:
\* no container exists for it.
C11_SetupFailureAbortsBeforeCreate ==
  (AcquisitionFailed \/ EagerPullFailed \/ OptionFailed) =>
    /\ pc = "returned"
    /\ result.Outputs = EmptyOutputs
    /\ AcquisitionFailed => result.Err = ErrCli
    /\ EagerPullFailed => result.Err = outcomes[1].err
    /\ OptionFailed => result.Err = ErrOption
    /\ Count("ContainerCreate") = 0
    /\ Count("ContainerRemove") = 0
    /\ resp = NoContainer
    /\ runs \notin created

C11_Witness ==
  /\ pc = "returned"
  /\ EagerPullFailed
  /\ config["PULL_ALWAYS"] = "1"
  /\ result.Err = ErrStream
  /\ calls = <<[call |-> "ImagePull", ok |-> TRUE]>>

\* C12: the log-forwarding goroutine ends once the attached stream has
\* ended: when a StdCopy call has returned at end of stream the goroutine
\* leaves the loop (and closes the attach handle), so it makes no second
\* StdCopy call on the ended stream.
C12_NoLoopingOnEndedStream == eofCopies <= 1

\* C13: a Run that finds a client handle on the Driver (constructed by an
\* earlier Run or registered with SetDockerCli) keeps that handle to its end
\* and constructs no client; a client is constructed only by a Run that
\* finds none, and a construction that fails leaves none behind and ends
\* the Run with the error, so that the next Run constructs again.
C13_ClientHandleReused ==
  [][/\ (pc # "idle" /\ dockerCli # NoCli) =>
          dockerCli' = dockerCli /\ clients' <= clients
     /\ clients' > clients =>
          pc = "init" /\ dockerCli = NoCli /\ clients' = clients + 1
     /\ (pc = "init" /\ pc' # pc /\ dockerCli = NoCli) =>
          /\ clients' = clients + 1
          /\ \/ dockerCli' = BuiltCli /\ pc' = "simulate"
             \/ dockerCli' = NoCli /\ pc' = "returned" /\ result'.Err = ErrCli]_vars

C13_Witness ==
  /\ runs = 2
  /\ pc = "simulate"
  /\ dockerCli = BuiltCli
  /\ clients = 0

\* C14: every call of Config() returns the same map, whose keys are VERBOSE,
\* PULL_ALWAYS, DOCKER_DRIVER_QUIET and OUTPUTS_MOUNT_PATH, whatever the
\* active settings are, and leaves the Driver (its settings included) as it
\* was.
C14_ConfigDescribesOptions ==
  [][described' # NotDescribed =>
       /\ DOMAIN described' =
            {"VERBOSE", "PULL_ALWAYS", "DOCKER_DRIVER_QUIET", "OUTPUTS_MOUNT_PATH"}
       /\ described # NotDescribed => described' = described
       /\ config' = config
       /\ driverVars' = driverVars]_vars

C14_Witness ==
  /\ described # NotDescribed
  /\ config["PULL_ALWAYS"] = "1"
  /\ runs >= 1

\* What the ContainerCreate calls of the current Run returned, in order,
\* and the places of those returns among the returns of pulls and creates.
CreateReturns == SelectSeq(outcomes, LAMBDA o : o.step = "ContainerCreate")
CreatePlaces == {i \in DOMAIN outcomes : outcomes[i].step = "ContainerCreate"}

\* A create or a fallback pull of the current Run failed for good: the first
\* create with another error than not-found, the pull after a create, or
\* the second create.
FirstCreateFatal ==
  CreateReturns # <<>> /\ CreateReturns[1].err \notin {NilErr, ErrNotFound}
FallbackPullFailed ==
  \E i \in CreatePlaces :
    /\ i < Len(outcomes)
    /\ outcomes[i + 1].step = "pullImage"
    /\ outcomes[i + 1].err # NilErr
SecondCreateFailed ==
  Len(CreateReturns) >= 2 /\ CreateReturns[2].err # NilErr

\* C15: a Run makes at most two ContainerCreate calls, of which at most one
\* succeeds; the second is made only after the first returned not-found and
\* the pull that followed succeeded. After any other failure of the first
\* create, a failed fallback pull or a failed second create (not-found
\* included) the Run has returned an error, made no further create or pull,
\* and made no ContainerRemove call.
C15_CreateAtMostTwice ==
  /\ Len(CreateReturns) <= 2
  /\ Count("ContainerCreate") = Len(CreateReturns)
  /\ CountOk("ContainerCreate", TRUE) <= 1
  /\ Len(CreateReturns) = 2 =>
       /\ CreateReturns[1].err = ErrNotFound
       /\ \E i \in CreatePlaces :
            /\ i + 2 \in CreatePlaces
            /\ outcomes[i + 1] = [step |-> "pullImage", err |-> NilErr]
  /\ (FirstCreateFatal \/ FallbackPullFailed \/ SecondCreateFailed) =>
       /\ pc = "returned"
       /\ result.Err # NilErr
       /\ result.Outputs = EmptyOutputs
       /\ outcomes[Len(outcomes)].err # NilErr
       /\ \A i \in 1..(Len(outcomes) - 1) :
            outcomes[i].err \in {NilErr, ErrNotFound}
       /\ \A i \in DOMAIN calls : calls[i].call \in {"ImagePull", "ContainerCreate"}
       /\ Count("ContainerRemove") = 0
       /\ resp = NoContainer

\* With the eager pull made, the create after the fallback pull answers
\* not-found again.
C15_Witness ==
  /\ pc = "returned"
  /\ config["PULL_ALWAYS"] = "1"
  /\ Len(CreateReturns) = 2
  /\ CreateReturns[2].err = ErrNotFound
  /\ Count("ImagePull") = 2

\* C16: in a Run whose container was started, so that exec reaches the
\* select, ContainerRemove is called only after the select has received and
\* right after CopyFromContainer has returned, with or without an error;
\* it is the last engine call of the Run, and it is made before Run returns.
C16_RemoveAfterRaceAndFetch ==
  CountOk("ContainerStart", TRUE) = 1 =>
    /\ \A i \in DOMAIN calls :
         calls[i].call = "ContainerRemove" =>
           /\ race.ch # "none"
           /\ i = Len(calls)
           /\ calls[i - 1].call = "CopyFromContainer"
           /\ calls[i - 1].ok = (copied.err = NilErr)
    /\ pc = "returned" => Count("ContainerRemove") = 1

\* The container was started, CopyFromContainer failed, the removal followed.
C16_Witness ==
  /\ pc = "returned"
  /\ CountOk("ContainerStart", TRUE) = 1
  /\ CountOk("CopyFromContainer", FALSE) = 1
  /\ calls[Len(calls)].call = "ContainerRemove"

\* The place of an engine call in the primary flow of exec; a pull has none.
Rank(call) ==
  CASE call = "ContainerCreate" -> 1
    [] call = "CopyToContainer" -> 2
    [] call = "ContainerAttach" -> 3
    [] call = "ContainerWait" -> 4
    [] call = "ContainerStart" -> 5
    [] call = "CopyFromContainer" -> 6
    [] call = "ContainerRemove" -> 7
    [] OTHER -> 0

\* C17: the engine calls of a Run come in the order create,
\* copy-to-container, attach, wait, start, copy-from-container, remove
\* (pulls only before the container exists, a second create only after a
\* failed first), each step from copy-to-container to copy-from-container
\* right after the success of the step before it. So after a failed create,
\* staging, copy, attach or start nothing but the removal follows: the
\* container is not started when staging, copy or attach failed, and no
\* output is fetched when the start failed.
C17_OrderedFailStop ==
  /\ \A j \in 2..Len(calls) :
       LET before == Rank(calls[j - 1].call)
           after == Rank(calls[j].call)
       IN  \/ before < after
           \/ before = 1 /\ after \in {0, 1} /\ ~calls[j - 1].ok
           \/ before = 0 /\ after = 0
  /\ \A j \in DOMAIN calls :
       Rank(calls[j].call) \in 2..6 =>
         /\ j > 1
         /\ Rank(calls[j - 1].call) = Rank(calls[j].call) - 1
         /\ calls[j - 1].ok
  /\ \A j \in DOMAIN calls :
       Rank(calls[j].call) = 7 => CountOk("ContainerCreate", TRUE) = 1
  /\ \A i \in DOMAIN calls :
       (~calls[i].ok /\ Rank(calls[i].call) \in {2, 3, 5}) =>
         /\ pc \in {"remove", "returned"}
         /\ result.Err # NilErr
         /\ i >= Len(calls) - 1
         /\ i = Len(calls) - 1 => Rank(calls[Len(calls)].call) = 7
  /\ Has(err, "destination path should be an absolute unix path") =>
       /\ pc \in {"remove", "returned"}
       /\ result.Err # NilErr
       /\ \A i \in DOMAIN calls : Rank(calls[i].call) \in {0, 1, 7}

\* ContainerAttach failed: create, copy, attach, remove and nothing else.
C17_Witness ==
  /\ pc = "returned"
  /\ calls = <<[call |-> "ContainerCreate", ok |-> TRUE],
               [call |-> "CopyToContainer", ok |-> TRUE],
               [call |-> "ContainerAttach", ok |-> FALSE],
               [call |-> "ContainerRemove", ok |-> TRUE]>>

\* C18: the options are kept in the order of their registration, earlier
\* AddConfigurationOptions calls first, and a Run invokes them in that
\* order: what it has invoked is a front part of the list, no option is
\* invoked after one that returned an error, the Run then returns that
\* error, and ContainerCreate is reached only when every option was invoked
\* and none returned an error.
C18_OptionsInRegistrationOrder ==
  /\ \A i \in DOMAIN dockerConfigurationOptions : dockerConfigurationOptions[i].id = i
  /\ Len(applied) <= Len(dockerConfigurationOptions)
  /\ \A i \in DOMAIN applied : applied[i] = dockerConfigurationOptions[i]
  /\ \A i \in 1..(Len(applied) - 1) : ~applied[i].fails
  /\ (applied # <<>> /\ Len(applied) < Len(dockerConfigurationOptions)) =>
       applied[Len(applied)].fails
  /\ OptionFailed => pc = "returned" /\ result.Err = ErrOption
  /\ Count("ContainerCreate") > 0 =>
       applied = dockerConfigurationOptions /\ ~OptionFailed

\* Two options registered, the first returns an error: the second is not invoked.
C18_Witness ==
  /\ pc = "returned"
  /\ Len(dockerConfigurationOptions) = 2
  /\ dockerConfigurationOptions[1].fails
  /\ applied = <<dockerConfigurationOptions[1]>>
  /\ result.Err = ErrOption

\* C19: with Simulate off, Run returns a nil error only after the wait
\* channel delivered exit status 0; when the select received from the error
\* channel (a nil or a non-nil value) or received a non-zero status, the
\* error Run returns is not nil.
C19_NilErrorOnlyAfterExitZero ==
  (~Simulate /\ pc = "returned") =>
    /\ result.Err = NilErr => race.ch = "statusc" /\ race.status = 0
    /\ (race.ch = "errc" \/ (race.ch = "statusc" /\ race.status # 0)) =>
         result.Err # NilErr

\* C20: the archive producer started by generateTar lives only during input
\* staging: when Run has returned, also after a CopyToContainer that failed
\* without reading the whole archive, no producer is left waiting in a
\* write with entries still to write.
C20_NoProducerBlockedAfterReturn ==
  pc \in {"returned", "idle"} => ~(tarTask = "writing" /\ tarLeft > 0)

====
